---- MODULE Spec2Model ----
(***************************************************************************)
(* Model of the directory lister in src/src/main.rs: main's loop over the  *)
(* requested paths, collect_entries, should_display, sort_entries,         *)
(* format_entries, format_size and parse_attributes.                       *)
(*                                                                         *)
(* A Rust String is a sequence of one-character strings (<<"a","b">> is    *)
(* "ab"); a requested path is an opaque string naming a node of the file   *)
(* system FS.  SystemTime is a number of seconds after local midnight of   *)
(* Jan 01, below one day.                                                  *)
(***************************************************************************)
EXTENDS Integers, Sequences, FiniteSets, TLC

VARIABLES arg, target_os, pc, path_idx, entries, display_entries,
          sorted_entries, formatted_entries, stdout, stderr, exit,
          bytes, size_str

vars == <<arg, target_os, pc, path_idx, entries, display_entries,
          sorted_entries, formatted_entries, stdout, stderr, exit,
          bytes, size_str>>

\* ------------------------------------------------------------------ bounds
\* longest list of entries handed to the pipeline functions
MaxLen == 3
\* longest list of requested paths
MaxPaths == 2
\* how far around each unit threshold format_size's inputs are drawn
Spread == 6

\* ----------------------------------------------------------------- strings
\* byte value of a character (String::cmp compares bytes)
Ord(c) ==
    CASE c = "." -> 46
      [] c = "/" -> 47
      [] c = "A" -> 65
      [] c = "B" -> 66
      [] c = "a" -> 97
      [] c = "b" -> 98
      [] OTHER -> 0

LowerChar(c) ==
    CASE c = "A" -> "a"
      [] c = "B" -> "b"
      [] OTHER -> c

\* str::to_lowercase
to_lowercase(s) == [i \in 1..Len(s) |-> LowerChar(s[i])]

\* str::starts_with(".")
starts_with_dot(s) == Len(s) >= 1 /\ s[1] = "."

\* Ord::cmp on integers: -1 Less, 0 Equal, 1 Greater
CmpInt(a, b) == IF a < b THEN -1 ELSE IF a > b THEN 1 ELSE 0

RECURSIVE CmpStr(_, _)
\* Ord::cmp on strings: lexicographic on bytes, a proper prefix is Less
CmpStr(s, t) ==
    IF s = <<>> /\ t = <<>> THEN 0
    ELSE IF s = <<>> THEN -1
    ELSE IF t = <<>> THEN 1
    ELSE IF Ord(Head(s)) # Ord(Head(t)) THEN CmpInt(Ord(Head(s)), Ord(Head(t)))
    ELSE CmpStr(Tail(s), Tail(t))

DigitChar == <<"0", "1", "2", "3", "4", "5", "6", "7", "8", "9">>

RECURSIVE InBase(_, _)
\* the digits of n >= 0 in the given base, no padding ("{}" and "{:o}")
InBase(n, base) ==
    IF n < base THEN <<DigitChar[n + 1]>>
    ELSE InBase(n \div base, base) \o <<DigitChar[(n % base) + 1]>>

Dec(n) == InBase(n, 10)

Spaces(k) == [i \in 1..k |-> " "]

\* "{:<w}": left-justified, padded with spaces to at least w
PadRight(s, w) == IF Len(s) >= w THEN s ELSE s \o Spaces(w - Len(s))

\* "{:>w}": right-justified, padded with spaces to at least w
PadLeft(s, w) == IF Len(s) >= w THEN s ELSE Spaces(w - Len(s)) \o s

RECURSIVE join(_, _)
\* [String]::join(separator)
join(strs, sep) ==
    IF strs = <<>> THEN <<>>
    ELSE IF Len(strs) = 1 THEN strs[1]
    ELSE strs[1] \o sep \o join(Tail(strs), sep)

Reverse(s) == [i \in 1..Len(s) |-> s[Len(s) + 1 - i]]

\* ------------------------------------------------------------ format_size
KB == 1024
MB == KB * 1024
GB == MB * 1024

RECURSIVE TimesTen(_, _, _, _, _)
\* <<q, r>> with 10 * rem = q * unit + r, by ten additions that stay below
\* 2 * unit
TimesTen(rem, unit, k, q, r) ==
    IF k = 0 THEN <<q, r>>
    ELSE IF r + rem >= unit THEN TimesTen(rem, unit, k - 1, q + 1, r + rem - unit)
    ELSE TimesTen(rem, unit, k - 1, q, r + rem)

\* format!("{:.1}", n as f64 / unit as f64): n and unit are below 2^53 and
\* unit is a power of two, so the quotient is exact in f64 and "{:.1}"
\* rounds its exact value to one decimal, a tie going to the even digit
Scaled(n, unit) ==
    LET whole == n \div unit
        qr == TimesTen(n % unit, unit, 10, 0, 0)
        up == (2 * qr[2] > unit) \/ (2 * qr[2] = unit /\ qr[1] % 2 = 1)
        tenths == IF up THEN qr[1] + 1 ELSE qr[1]
    IN  IF tenths = 10 THEN Dec(whole + 1) \o <<".", "0">>
        ELSE Dec(whole) \o <<".">> \o Dec(tenths)

format_size_gt(n) ==
    IF n > GB THEN Scaled(n, GB) \o <<"G">>
    ELSE IF n > MB THEN Scaled(n, MB) \o <<"M">>
    ELSE IF n > KB THEN Scaled(n, KB) \o <<"K">>
    ELSE Dec(n) \o <<"B">>

format_size(n) ==
    IF n >= GB THEN Scaled(n, GB) \o <<"G">>
    ELSE IF n >= MB THEN Scaled(n, MB) \o <<"M">>
    ELSE IF n >= KB THEN Scaled(n, KB) \o <<"K">>
    ELSE Dec(n) \o <<"B">>

\* ------------------------------------------------------------ platform cfg
\* the values of target_os the builds modelled here are made for; no Rust
\* target has target_os = "unix" (unix is a target_family)
TargetOS == {"linux", "macos", "windows"}

\* #[cfg(target_os = "unix")]
cfg_unix == target_os = "unix"

\* #[cfg(target_os = "windows")]
cfg_windows == target_os = "windows"

\* attr & bit != 0, for a one-bit mask
BitSet(attr, bit) == (attr \div bit) % 2 = 1

\* ------------------------------------------------------------------- Entry
Entry(name, modified, size, attribute) ==
    [name |-> name, modified |-> modified, size |-> size, attribute |-> attribute]

\* -------------------------------------------------------- parse_attributes
WindowsFlags(attr) ==
    (IF BitSet(attr, 1) THEN <<<<"R", "E", "A", "D", "O", "N", "L", "Y">>>> ELSE <<>>)
    \o (IF BitSet(attr, 2) THEN <<<<"H", "I", "D", "D", "E", "N">>>> ELSE <<>>)
    \o (IF BitSet(attr, 4) THEN <<<<"S", "Y", "S", "T", "E", "M">>>> ELSE <<>>)
    \o (IF BitSet(attr, 32) THEN <<<<"A", "R", "C", "H", "I", "V", "E">>>> ELSE <<>>)

parse_attributes(attr) ==
    IF cfg_windows THEN
        IF WindowsFlags(attr) = <<>> THEN <<"N", "O", "R", "M", "A", "L">>
        ELSE join(WindowsFlags(attr), <<",", " ">>)
    ELSE IF cfg_unix THEN InBase(attr % 512, 8)
    ELSE <<"U", "N", "K", "N", "O", "W", "N">>

\* ---------------------------------------------------------- should_display
should_display_drop_first(es, a) ==
    IF a.all THEN es
    ELSE IF es # <<>> /\ starts_with_dot(es[1].name) THEN Tail(es)
    ELSE es

should_display(es, a) ==
    IF a.all THEN es
    ELSE SelectSeq(es, LAMBDA e :
            LET is_dot_file == starts_with_dot(e.name)
                is_hidden == IF cfg_windows THEN BitSet(e.attribute, 2) ELSE FALSE
            IN  ~is_dot_file /\ ~is_hidden)

\* ------------------------------------------------------------ sort_entries
\* comparators of which the name one forgets to lowercase
Compare_case_sensitive(key, x, y) ==
    CASE key = "modified" -> CmpInt(x.modified, y.modified)
      [] key = "size" -> CmpInt(x.size, y.size)
      [] key = "name" -> CmpStr(x.name, y.name)

\* the three comparators handed to sort_by
Compare(key, x, y) ==
    CASE key = "modified" -> CmpInt(x.modified, y.modified)
      [] key = "size" -> CmpInt(x.size, y.size)
      [] key = "name" -> CmpStr(to_lowercase(x.name), to_lowercase(y.name))

\* x placed behind every element of the sorted list s that is not Greater
InsertStable(key, s, x) ==
    LET after == {i \in 1..Len(s) : Compare(key, s[i], x) = 1}
        at == IF after = {} THEN Len(s) + 1
              ELSE CHOOSE i \in after : \A j \in after : i <= j
    IN  SubSeq(s, 1, at - 1) \o <<x>> \o SubSeq(s, at, Len(s))

RECURSIVE SortInto(_, _, _)
SortInto(key, done, rest) ==
    IF rest = <<>> THEN done
    ELSE SortInto(key, InsertStable(key, done, Head(rest)), Tail(rest))

RECURSIVE sort_by_unstable(_, _)
\* a sort that puts an element in front of the ones it compares equal to
sort_by_unstable(es, key) ==
    IF es = <<>> THEN <<>>
    ELSE LET x == es[Len(es)]
             s == sort_by_unstable(SubSeq(es, 1, Len(es) - 1), key)
             before == {i \in 1..Len(s) : Compare(key, s[i], x) = -1}
         IN  SubSeq(s, 1, Cardinality(before)) \o <<x>>
             \o SubSeq(s, Cardinality(before) + 1, Len(s))

\* Vec::sort_by: a stable sort, equal elements keep their order
sort_by(es, key) == SortInto(key, <<>>, es)

\* a sorter that never reverses
sort_entries_no_reverse(es, a) ==
    IF a.sort_by_time THEN sort_by(es, "modified")
    ELSE IF a.sort_by_size THEN sort_by(es, "size")
    ELSE sort_by(es, "name")

\* a sorter that reverses exactly when reverse is set, for every key
sort_entries_symmetric(es, a) ==
    IF a.reverse THEN Reverse(sort_entries_no_reverse(es, a))
    ELSE sort_entries_no_reverse(es, a)

\* a sorter that loses the last entry when it reverses
sort_entries_lossy(es, a) ==
    LET s == sort_entries_no_reverse(es, a)
        flip == IF a.sort_by_time \/ a.sort_by_size THEN ~a.reverse ELSE a.reverse
    IN  IF flip /\ s # <<>> THEN Reverse(SubSeq(s, 1, Len(s) - 1))
        ELSE s

sort_entries(es, a) ==
    IF a.sort_by_time THEN
        IF ~a.reverse THEN Reverse(sort_by(es, "modified")) ELSE sort_by(es, "modified")
    ELSE IF a.sort_by_size THEN
        IF ~a.reverse THEN Reverse(sort_by(es, "size")) ELSE sort_by(es, "size")
    ELSE
        IF a.reverse THEN Reverse(sort_by(es, "name")) ELSE sort_by(es, "name")

\* ---------------------------------------------------------- format_entries
TwoDigits(n) == <<DigitChar[(n \div 10) + 1], DigitChar[(n % 10) + 1]>>

\* DateTime<Local>::format("%b %d %H:%M") of a time on Jan 01
FormatTime(t) ==
    <<"J", "a", "n", " ", "0", "1", " ">>
    \o TwoDigits((t \div 3600) % 24) \o <<":">> \o TwoDigits((t \div 60) % 60)

\* the closure format_entries maps over the entries
FormatOne(f, a) ==
    IF a.long_format THEN
        LET size_display == IF a.human_readable THEN format_size(f.size)
                            ELSE Dec(f.size) \o <<"B">>
            attributes == parse_attributes(f.attribute)
        IN  PadRight(f.name, 20) \o <<" ", " ">> \o PadLeft(size_display, 10)
            \o <<" ", "s", "i", "z", "e", " ", " ",
                 "m", "o", "d", "i", "f", "i", "e", "d", ":", " ">>
            \o PadRight(FormatTime(f.modified), 15)
            \o <<" ", "a", "t", "t", "r", "i", "b", "u", "t", "e", "s", ":", " ">>
            \o attributes
    ELSE f.name

format_entries(es, a) == [i \in 1..Len(es) |-> FormatOne(es[i], a)]

\* ------------------------------------------------------------- file system
\* what the walker yields: Ok(DirEntry) or Err(walkdir::Error)
OkItem(depth, file_name, is_dir, meta_ok, mtime_ok, modified, len, mode, file_attributes) ==
    [ok |-> TRUE, depth |-> depth, file_name |-> file_name, is_dir |-> is_dir,
     meta_ok |-> meta_ok, mtime_ok |-> mtime_ok, modified |-> modified,
     len |-> len, mode |-> mode, file_attributes |-> file_attributes]

ErrItem(depth) == [ok |-> FALSE, depth |-> depth]

\* the paths a user may request
Paths == {"good", "bad", "nomtime", "missing", "denied", "file"}

\* the nodes of the file system: "." is the working directory
FS ==
    [p \in Paths \cup {"."} |->
        CASE p = "good" ->
                [kind |-> "dir",
                 items |-> << OkItem(1, <<"a", "b">>, FALSE, TRUE, TRUE, 3660, 100, 420, 32),
                              OkItem(1, <<".", "a">>, FALSE, TRUE, TRUE, 120, 2048, 384, 2),
                              OkItem(1, <<"B">>, TRUE, TRUE, TRUE, 7200, 1000, 493, 16),
                              OkItem(2, <<"b">>, FALSE, TRUE, TRUE, 60, 1024, 7, 1) >>]
          [] p = "bad" ->
                [kind |-> "dir",
                 items |-> << OkItem(1, <<"a">>, FALSE, TRUE, TRUE, 60, 100, 420, 32),
                              OkItem(1, <<"b">>, FALSE, FALSE, TRUE, 120, 1000, 420, 32),
                              OkItem(1, <<"A", "b">>, FALSE, TRUE, TRUE, 180, 2048, 420, 32) >>]
          [] p = "nomtime" ->
                [kind |-> "dir",
                 items |-> << OkItem(1, <<"b">>, FALSE, TRUE, FALSE, 0, 100, 420, 32),
                              OkItem(1, <<"a">>, FALSE, TRUE, TRUE, 60, 1000, 420, 32) >>]
          [] p = "missing" -> [kind |-> "missing", items |-> <<>>]
          [] p = "denied" -> [kind |-> "denied", items |-> <<>>]
          [] p = "file" -> [kind |-> "file", items |-> <<>>]
          [] p = "." ->
                [kind |-> "dir",
                 items |-> << OkItem(1, <<"B", "a">>, FALSE, TRUE, TRUE, 60, 1000, 420, 32),
                              OkItem(1, <<"a">>, TRUE, TRUE, TRUE, 120, 100, 448, 16),
                              ErrItem(2),
                              OkItem(1, <<"A">>, FALSE, TRUE, TRUE, 180, 2048, 7, 32) >>] ]

\* WalkDir::new(path).min_depth(1), with max_depth(1) unless recursive: a
\* root that cannot be stat'ed or opened yields one Err; a root that is a
\* file is the only entry, at depth 0, and min_depth(1) leaves it out
walker(path, a) ==
    CASE FS[path].kind \in {"missing", "denied"} -> <<ErrItem(0)>>
      [] FS[path].kind = "file" -> <<>>
      [] FS[path].kind = "dir" ->
            SelectSeq(FS[path].items, LAMBDA it : a.recursive \/ it.depth = 1)

\* --------------------------------------------------------- collect_entries
RECURSIVE CollectLoop(_, _, _)
\* the for loop over the walker: `?` returns the Err at once
CollectLoop(items, results, warnings) ==
    IF items = <<>> THEN [ok |-> TRUE, results |-> results, warnings |-> warnings]
    ELSE LET it == Head(items) IN
        IF ~it.ok THEN CollectLoop(Tail(items), results, Append(warnings, "Warning"))
        ELSE IF ~it.meta_ok THEN
            [ok |-> FALSE, results |-> <<>>, warnings |-> warnings,
             error |-> "Failed to read metadata"]
        ELSE IF ~it.mtime_ok THEN
            [ok |-> FALSE, results |-> <<>>, warnings |-> warnings,
             error |-> "Failed to get modified time"]
        ELSE LET attribute == IF cfg_unix THEN it.mode
                              ELSE IF cfg_windows THEN it.file_attributes
                              ELSE 0
                 name == IF it.is_dir THEN it.file_name \o <<"/">> ELSE it.file_name
             IN  CollectLoop(Tail(items),
                             Append(results, Entry(name, it.modified, it.len, attribute)),
                             warnings)

collect_entries(path, a) == CollectLoop(walker(path, a), <<>>, <<>>)

\* -------------------------------------------------------------------- main
Flags == [all : BOOLEAN, recursive : BOOLEAN, sort_by_time : BOOLEAN,
          reverse : BOOLEAN, sort_by_size : BOOLEAN, long_format : BOOLEAN,
          human_readable : BOOLEAN]

\* Arg::parse(): the flags and the list of paths
Arg(flags, paths) ==
    [paths |-> paths, all |-> flags.all, recursive |-> flags.recursive,
     sort_by_time |-> flags.sort_by_time, reverse |-> flags.reverse,
     sort_by_size |-> flags.sort_by_size, long_format |-> flags.long_format,
     human_readable |-> flags.human_readable]

PathLists == UNION {[1..n -> Paths] : n \in 0..MaxPaths}

separator == IF arg.long_format THEN <<"\n">> ELSE <<" ">>

\* the path main is working on: "." when none was given
CurPath == IF arg.paths = <<>> THEN "." ELSE arg.paths[path_idx]

\* "{}:" of path.green()
Header(p) == <<[green |-> p], ":">>

NoSize == <<>>

Init ==
    /\ target_os \in TargetOS
    /\ \E flags \in Flags, paths \in PathLists : arg = Arg(flags, paths)
    /\ pc = IF arg.paths = <<>> THEN "collect" ELSE "header"
    /\ path_idx = 1
    /\ entries = <<>>
    /\ display_entries = <<>>
    /\ sorted_entries = <<>>
    /\ formatted_entries = <<>>
    /\ stdout = <<>>
    /\ stderr = <<>>
    /\ exit = "running"
    /\ bytes = 0
    /\ size_str = NoSize

\* line 61
PrintHeader ==
    /\ pc = "header"
    /\ stdout' = Append(stdout, Header(CurPath))
    /\ pc' = "collect"
    /\ UNCHANGED <<arg, target_os, path_idx, entries, display_entries,
                   sorted_entries, formatted_entries, stderr, exit, bytes, size_str>>

\* lines 62-63 and 72, collect_entries returning Ok
CollectOk ==
    /\ pc = "collect"
    /\ LET r == collect_entries(CurPath, arg) IN
        /\ r.ok
        /\ entries' = r.results
        /\ stderr' = stderr \o [i \in 1..Len(r.warnings) |->
                                    [kind |-> r.warnings[i], path |-> CurPath]]
    /\ pc' = "filter"
    /\ UNCHANGED <<arg, target_os, path_idx, display_entries, sorted_entries,
                   formatted_entries, stdout, exit, bytes, size_str>>

\* lines 62-63 and 72, collect_entries returning Err: `?` makes main return
\* it, and the runtime prints it and exits with a failure code
CollectErr ==
    /\ pc = "collect"
    /\ LET r == collect_entries(CurPath, arg) IN
        /\ ~r.ok
        /\ stderr' = (stderr \o [i \in 1..Len(r.warnings) |->
                                    [kind |-> r.warnings[i], path |-> CurPath]])
                     \o <<[kind |-> "Error", path |-> CurPath, cause |-> r.error]>>
    /\ exit' = "Err"
    /\ pc' = "done"
    /\ UNCHANGED <<arg, target_os, path_idx, entries, display_entries,
                   sorted_entries, formatted_entries, stdout, bytes, size_str>>

\* lines 64 and 73
ShouldDisplay ==
    /\ pc = "filter"
    /\ display_entries' = should_display(entries, arg)
    /\ pc' = "sort"
    /\ UNCHANGED <<arg, target_os, path_idx, entries, sorted_entries,
                   formatted_entries, stdout, stderr, exit, bytes, size_str>>

\* lines 65 and 74
SortEntries ==
    /\ pc = "sort"
    /\ sorted_entries' = sort_entries(display_entries, arg)
    /\ pc' = "format"
    /\ UNCHANGED <<arg, target_os, path_idx, entries, display_entries,
                   formatted_entries, stdout, stderr, exit, bytes, size_str>>

\* lines 66 and 75
FormatEntries ==
    /\ pc = "format"
    /\ formatted_entries' = format_entries(sorted_entries, arg)
    /\ pc' = "print"
    /\ UNCHANGED <<arg, target_os, path_idx, entries, display_entries,
                   sorted_entries, stdout, stderr, exit, bytes, size_str>>

\* line 67; line 76 is the last statement of the branch without paths
PrintEntries ==
    /\ pc = "print"
    /\ stdout' = Append(stdout, join(formatted_entries, separator))
    /\ IF arg.paths = <<>>
         THEN pc' = "done" /\ exit' = "Ok"
         ELSE pc' = "separator" /\ exit' = exit
    /\ UNCHANGED <<arg, target_os, path_idx, entries, display_entries,
                   sorted_entries, formatted_entries, stderr, bytes, size_str>>

\* line 68, then the next path or the end of the loop
PrintSeparator ==
    /\ pc = "separator"
    /\ stdout' = Append(stdout, <<>>)
    /\ IF path_idx < Len(arg.paths)
         THEN path_idx' = path_idx + 1 /\ pc' = "header" /\ exit' = exit
         ELSE path_idx' = path_idx /\ pc' = "done" /\ exit' = "Ok"
    /\ UNCHANGED <<arg, target_os, entries, display_entries, sorted_entries,
                   formatted_entries, stderr, bytes, size_str>>

Next ==
    \/ PrintHeader
    \/ CollectOk
    \/ CollectErr
    \/ ShouldDisplay
    \/ SortEntries
    \/ FormatEntries
    \/ PrintEntries
    \/ PrintSeparator

Spec == Init /\ [][Next]_vars

\* ------------------------------------------- the pipeline on any entry list
\* the entries the pipeline functions are tried on
EntryUniverse ==
    { Entry(<<"A", "b">>, 60, 100, 0),
      Entry(<<"a", "b">>, 60, 1000, 420),
      Entry(<<"a">>, 3660, 100, 2),
      Entry(<<".", "a">>, 120, 2048, 493),
      Entry(<<"B", "/">>, 120, 1000, 7) }

EntryLists == UNION {[1..n -> EntryUniverse] : n \in 0..MaxLen}

\* should_display, sort_entries and format_entries called as main calls them
InitPipe ==
    /\ target_os \in TargetOS
    /\ \E flags \in Flags : ~flags.recursive /\ arg = Arg(flags, <<>>)
    /\ pc = "filter"
    /\ path_idx = 1
    /\ entries \in EntryLists
    /\ display_entries = <<>>
    /\ sorted_entries = <<>>
    /\ formatted_entries = <<>>
    /\ stdout = <<>>
    /\ stderr = <<>>
    /\ exit = "running"
    /\ bytes = 0
    /\ size_str = NoSize

NextPipe ==
    \/ ShouldDisplay
    \/ SortEntries
    \/ FormatEntries

SpecPipe == InitPipe /\ [][NextPipe]_vars

\* ------------------------------------------------ format_size on any count
SizeInputs ==
    (0..Spread)
    \cup {u + d : u \in {KB, MB, GB}, d \in (0 - Spread)..Spread}
    \cup {500, 1280, 2048, 5 * MB, GB + (GB \div 2)}

InitSize ==
    /\ target_os \in TargetOS
    /\ arg = Arg([all |-> FALSE, recursive |-> FALSE, sort_by_time |-> FALSE,
                  reverse |-> FALSE, sort_by_size |-> FALSE, long_format |-> TRUE,
                  human_readable |-> TRUE], <<>>)
    /\ pc = "size"
    /\ path_idx = 1
    /\ entries = <<>>
    /\ display_entries = <<>>
    /\ sorted_entries = <<>>
    /\ formatted_entries = <<>>
    /\ stdout = <<>>
    /\ stderr = <<>>
    /\ exit = "running"
    /\ bytes \in SizeInputs
    /\ size_str = NoSize

\* format_size(bytes)
FormatSize ==
    /\ pc = "size"
    /\ size_str' = format_size(bytes)
    /\ pc' = "sized"
    /\ UNCHANGED <<arg, target_os, path_idx, entries, display_entries,
                   sorted_entries, formatted_entries, stdout, stderr, exit, bytes>>

NextSize == FormatSize

SpecSize == InitSize /\ [][NextSize]_vars

\* ================================================================== claims
Filtered == pc \in {"sort", "format", "print"}
Sorted == pc \in {"format", "print"}
Formatted == pc = "print"

NotDot(e) == e.name = <<>> \/ e.name[1] # "."

\* C4: with all=false should_display returns exactly the entries whose name
\* does not begin with '.', in their original order (on a platform without a
\* hidden attribute bit); with all=true it returns its input unchanged;
\* whatever the sort and format flags
C4_FilterKeepsExactlyNonDot ==
    Filtered =>
        /\ arg.all => display_entries = entries
        /\ (~arg.all /\ ~cfg_windows) =>
                display_entries = SelectSeq(entries, NotDot)

C4_Witness ==
    /\ pc = "sort" /\ ~arg.all /\ target_os = "linux"
    /\ arg.sort_by_size /\ arg.long_format
    /\ Len(entries) = 3 /\ ~NotDot(entries[2])
    /\ NotDot(entries[1]) /\ NotDot(entries[3])
    /\ display_entries = <<entries[1], entries[3]>>

NewestFirst(s) == \A i \in 1..(Len(s) - 1) : s[i].modified >= s[i + 1].modified
OldestFirst(s) == \A i \in 1..(Len(s) - 1) : s[i].modified <= s[i + 1].modified
LargestFirst(s) == \A i \in 1..(Len(s) - 1) : s[i].size >= s[i + 1].size
SmallestFirst(s) == \A i \in 1..(Len(s) - 1) : s[i].size <= s[i + 1].size

NameAscending(s) ==
    \A i \in 1..(Len(s) - 1) :
        CmpStr(to_lowercase(s[i].name), to_lowercase(s[i + 1].name)) <= 0
NameDescending(s) ==
    \A i \in 1..(Len(s) - 1) :
        CmpStr(to_lowercase(s[i].name), to_lowercase(s[i + 1].name)) >= 0

\* the key sort_entries sorts by: time before size, name otherwise
ByTime == arg.sort_by_time
BySize == ~arg.sort_by_time /\ arg.sort_by_size
ByName == ~arg.sort_by_time /\ ~arg.sort_by_size

\* C3: with reverse=false a size sort puts larger sizes first, a time sort
\* the most recently modified first and a name sort is ascending; with
\* reverse=true each is inverted, and the reverse=true output is the
\* reverse=false output in reverse order
C3_DefaultDirections ==
    Sorted =>
        /\ (ByTime /\ ~arg.reverse) => NewestFirst(sorted_entries)
        /\ (BySize /\ ~arg.reverse) => LargestFirst(sorted_entries)
        /\ (ByName /\ ~arg.reverse) => NameAscending(sorted_entries)
        /\ (ByTime /\ arg.reverse) => OldestFirst(sorted_entries)
        /\ (BySize /\ arg.reverse) => SmallestFirst(sorted_entries)
        /\ (ByName /\ arg.reverse) => NameDescending(sorted_entries)
        /\ sorted_entries =
              Reverse(sort_entries(display_entries, [arg EXCEPT !.reverse = ~arg.reverse]))

C3_Witness ==
    /\ pc = "format" /\ BySize /\ ~arg.reverse
    /\ Len(display_entries) = 2
    /\ display_entries[1].size = 100 /\ display_entries[2].size = 1000
    /\ sorted_entries = <<display_entries[2], display_entries[1]>>

\* the value two entries are equal under when they compare equal
KeyOf(e) ==
    IF ByTime THEN <<e.modified>>
    ELSE IF BySize THEN <<e.size>>
    ELSE to_lowercase(e.name)

\* the entries of s that compare equal to e, in the order they have in s
EqualTo(s, e) == SelectSeq(s, LAMBDA x : KeyOf(x) = KeyOf(e))

\* sort_entries ends with a reversal
Flipped == IF ByName THEN arg.reverse ELSE ~arg.reverse

\* C5 as stated: for every key and both values of reverse, entries that
\* compare equal keep the relative order they had in the input
C5_StableForEveryFlag ==
    Sorted =>
        \A i \in 1..Len(display_entries) :
            EqualTo(sorted_entries, display_entries[i])
                = EqualTo(display_entries, display_entries[i])

\* C5 amended: entries that compare equal keep their input order when
\* sort_entries does not end with a reversal (name with reverse=false, time
\* or size with reverse=true) and come out in the reverse of their input
\* order when it does (name with reverse=true, time or size with
\* reverse=false)
C5_StableUpToFinalReversal ==
    Sorted =>
        \A i \in 1..Len(display_entries) :
            EqualTo(sorted_entries, display_entries[i])
                = IF Flipped THEN Reverse(EqualTo(display_entries, display_entries[i]))
                  ELSE EqualTo(display_entries, display_entries[i])

C5_Witness ==
    /\ pc = "format" /\ BySize /\ arg.reverse
    /\ Len(display_entries) = 3
    /\ display_entries[1].size = 1000 /\ display_entries[2].size = 100
    /\ display_entries[3].size = 1000
    /\ display_entries[1] # display_entries[3]
    /\ sorted_entries = <<display_entries[2], display_entries[1], display_entries[3]>>

Count(s, e) == Cardinality({i \in 1..Len(s) : s[i] = e})

\* the size column of a long line
SizeDisplay(e) ==
    IF arg.human_readable THEN format_size(e.size) ELSE Dec(e.size) \o <<"B">>

\* C8: sort_entries followed by format_entries yields as many strings as
\* entries left by should_display, the sorted list is a permutation of the
\* filtered list, and the i-th string is derived from the i-th sorted entry:
\* it is the name in compact mode, and in long mode it starts with the name
\* and carries the entry's size in its size column
C8_NoEntryDroppedOrDuplicated ==
    Formatted =>
        /\ Len(formatted_entries) = Len(display_entries)
        /\ Len(sorted_entries) = Len(display_entries)
        /\ \A e \in EntryUniverse : Count(sorted_entries, e) = Count(display_entries, e)
        /\ \A i \in 1..Len(sorted_entries) :
              IF arg.long_format
              THEN /\ SubSeq(formatted_entries[i], 1, Len(sorted_entries[i].name))
                          = sorted_entries[i].name
                   /\ SubSeq(formatted_entries[i], 23, 32)
                          = PadLeft(SizeDisplay(sorted_entries[i]), 10)
              ELSE formatted_entries[i] = sorted_entries[i].name

C8_Witness ==
    /\ Formatted /\ ~arg.all /\ arg.long_format /\ BySize /\ ~arg.reverse
    /\ Len(entries) = 3 /\ Len(display_entries) = 2 /\ Len(formatted_entries) = 2
    /\ sorted_entries # display_entries

\* C10: a name sort with reverse=false is case-insensitive: the lowercased
\* name of each entry of the output is less than or equal to the lowercased
\* name of the entry after it, whatever the case of the names
C10_NameSortIgnoresCase ==
    (Sorted /\ ByName /\ ~arg.reverse) =>
        \A i \in 1..(Len(sorted_entries) - 1) :
            CmpStr(to_lowercase(sorted_entries[i].name),
                   to_lowercase(sorted_entries[i + 1].name)) \in {-1, 0}

C10_Witness ==
    /\ pc = "format" /\ ByName /\ ~arg.reverse
    /\ Len(display_entries) = 2
    /\ display_entries[1].name = <<"B", "/">>
    /\ display_entries[2].name = <<"a", "b">>
    /\ sorted_entries = <<display_entries[2], display_entries[1]>>

DigitVal(c) == CHOOSE d \in 0..9 : DigitChar[d + 1] = c

RECURSIVE ParseDec(_)
ParseDec(s) == IF s = <<>> THEN 0
               ELSE 10 * ParseDec(SubSeq(s, 1, Len(s) - 1)) + DigitVal(s[Len(s)])

IsDigits(s) == s # <<>> /\ \A i \in 1..Len(s) : \E d \in 0..9 : DigitChar[d + 1] = s[i]

\* str is <digits>.<digit><suffix> and its whole part is that of n / unit,
\* or the next integer with a decimal digit of 0
ScaledIn(str, n, unit, suffix) ==
    LET k == Len(str) IN
    /\ k >= 4
    /\ str[k] = suffix
    /\ str[k - 2] = "."
    /\ IsDigits(SubSeq(str, 1, k - 3))
    /\ IsDigits(<<str[k - 1]>>)
    /\ \/ ParseDec(SubSeq(str, 1, k - 3)) = n \div unit
       \/ /\ ParseDec(SubSeq(str, 1, k - 3)) = (n \div unit) + 1
          /\ str[k - 1] = "0"
    /\ (n % unit = 0) => str = Dec(n \div unit) \o <<".", "0", suffix>>

\* to one decimal, str is within half a tenth of n / 1024
NearestTenthK(str, n) ==
    LET k == Len(str)
        tenths == 10 * ParseDec(SubSeq(str, 1, k - 3)) + DigitVal(str[k - 1])
        diff == 10 * n - tenths * KB
    IN  2 * diff <= KB /\ 2 * diff >= 0 - KB

\* C9: format_size picks the unit at exactly 1024, 1024^2 and 1024^3: below
\* 1024 the count is rendered as the integer followed by B, in [1024, 1024^2)
\* in K, in [1024^2, 1024^3) in M and from 1024^3 on in G, each as the
\* scaled value with one decimal place; 1024, 1024^2, 1024^3 render as
\* 1.0K, 1.0M, 1.0G, 500 as 500B and 2048 as 2.0K
C9_UnitThresholds ==
    pc = "sized" =>
        /\ bytes < KB => size_str = Dec(bytes) \o <<"B">>
        /\ (bytes >= KB /\ bytes < MB) =>
                ScaledIn(size_str, bytes, KB, "K") /\ NearestTenthK(size_str, bytes)
        /\ (bytes >= MB /\ bytes < GB) => ScaledIn(size_str, bytes, MB, "M")
        /\ bytes >= GB => ScaledIn(size_str, bytes, GB, "G")
        /\ bytes = KB => size_str = <<"1", ".", "0", "K">>
        /\ bytes = MB => size_str = <<"1", ".", "0", "M">>
        /\ bytes = GB => size_str = <<"1", ".", "0", "G">>
        /\ bytes = 500 => size_str = <<"5", "0", "0", "B">>
        /\ bytes = 2048 => size_str = <<"2", ".", "0", "K">>

C9_Witness ==
    /\ pc = "sized" /\ bytes = MB /\ size_str = <<"1", ".", "0", "M">>

\* ------------------------------------------------ claims about a whole run
\* the walker's items whose metadata and modification time can be read
Readable(it) == it.ok /\ it.meta_ok /\ it.mtime_ok

ItemName(it) == IF it.is_dir THEN it.file_name \o <<"/">> ELSE it.file_name

ReadableNames(p) ==
    LET good == SelectSeq(walker(p, arg), Readable)
    IN  [i \in 1..Len(good) |-> ItemName(good[i])]

\* C1: a failure to read one entry's metadata or modification time is a
\* per-entry error: that entry is left out, every other entry of the
\* traversal is returned, and the run goes on to its normal output for that
\* path and for the remaining paths
C1_MetadataFailureIsPerEntry ==
    /\ pc = "filter" => [i \in 1..Len(entries) |-> entries[i].name] = ReadableNames(CurPath)
    /\ pc = "done" => (exit = "Ok" /\ Len(stdout) >= Len(arg.paths))

Unopenable(p) == FS[p].kind \in {"missing", "denied", "file"}

\* how many reports on stderr are about path p
Reports(p) == Cardinality({i \in 1..Len(stderr) : stderr[i].path = p})

OccursOnce(p) == Cardinality({k \in 1..Len(arg.paths) : arg.paths[k] = p}) = 1

\* the header of the k-th path is on stdout, behind three lines for each
\* path before it
HeaderPrinted(k) ==
    Len(stdout) >= 3 * k - 2 /\ stdout[3 * k - 2] = Header(arg.paths[k])

\* C2: a requested path that cannot be opened as a directory (missing,
\* permission denied or not a directory) has its header printed first, is
\* then reported exactly once, and every later path is still traversed and
\* printed
C2_UnopenablePathReportedOnce ==
    \A k \in 1..Len(arg.paths) :
        LET p == arg.paths[k] IN
        (Unopenable(p) /\ OccursOnce(p)) =>
            /\ Reports(p) > 0 => HeaderPrinted(k)
            /\ (HeaderPrinted(k) /\ (path_idx > k \/ pc = "done")) => Reports(p) = 1
            /\ (HeaderPrinted(k) /\ pc = "done") =>
                    \A j \in (k + 1)..Len(arg.paths) :
                        HeaderPrinted(j) /\ Len(stdout) >= 3 * j

\* three octal digits, zero-padded
Octal3(n) ==
    <<DigitChar[((n \div 64) % 8) + 1], DigitChar[((n \div 8) % 8) + 1],
      DigitChar[(n % 8) + 1]>>

LastThree(s) == SubSeq(s, Len(s) - 2, Len(s))

\* C6: on a POSIX platform an entry's attribute field carries the mode bits
\* read from its metadata, and its long-format attribute summary is the low
\* 9 bits of the mode as a 3-digit octal string
C6_PosixModeAsThreeOctalDigits ==
    target_os \in {"linux", "macos"} =>
        /\ (pc = "filter" /\ \A i \in 1..Len(walker(CurPath, arg)) :
                                Readable(walker(CurPath, arg)[i])) =>
                \A i \in 1..Len(entries) :
                    entries[i].attribute = walker(CurPath, arg)[i].mode
        /\ (pc = "print" /\ arg.long_format) =>
                \A i \in 1..Len(formatted_entries) :
                    LastThree(formatted_entries[i])
                        = Octal3(sorted_entries[i].attribute % 512)

\* the line of formatted entries main prints for path p
Listing(p) ==
    join(format_entries(sort_entries(should_display(collect_entries(p, arg).results,
                                                    arg), arg), arg),
         separator)

RECURSIVE OutputFor(_)
\* a header, the listing and a blank line for each path, in order
OutputFor(paths) ==
    IF paths = <<>> THEN <<>>
    ELSE <<Header(Head(paths)), Listing(Head(paths)), <<>>>> \o OutputFor(Tail(paths))

RequestedOrCwd == IF arg.paths = <<>> THEN <<".">> ELSE arg.paths

\* C7: for every requested path, in the order given, main prints a header,
\* the path's formatted entries joined by the separator and a blank line,
\* finishing one path before the next; with no paths the same is printed for
\* the working directory
C7_HeaderListingBlankPerPath ==
    /\ Len(stdout) <= Len(OutputFor(RequestedOrCwd))
    /\ stdout = SubSeq(OutputFor(RequestedOrCwd), 1, Len(stdout))
    /\ pc = "done" => stdout = OutputFor(RequestedOrCwd)

====
